---- MODULE Spec2Model ----
(***************************************************************************)
(* The batch audio pipeline of Processing_Pipeline.py ("main") and of      *)
(* Custom_with_Vocals/script_debug.py ("debug"): the batch driver, the     *)
(* four phases of AudioProcessingPipeline.process_audio and the files they *)
(* write.  The external models (demucs, openunmix, VoiceFixer, ffmpeg,     *)
(* librosa, soundfile) are environment: each call returns or raises.       *)
(***************************************************************************)
EXTENDS Integers, Sequences, FiniteSets, TLC

VARIABLES
    variant,        \* "main" (Processing_Pipeline.py) or "debug" (script_debug.py)
    pc,             \* position of the driver / of process_audio
    ffmpeg_path,    \* result of check_ffmpeg ("none" when not found)
    listing,        \* history: the os.listdir(input_dir) result the last step read (at most one)
    audio_files,    \* the list of paths handed to the pipeline
    file_idx,       \* index in audio_files of the current run (0 before the loop)
    total_samples,  \* len(audio) of the current run's split (-1: not loaded)
    segments,       \* segment_paths of the current run, with the samples each holds
    seg_idx,        \* index of the next segment of the Phase 3 loop
    ret,            \* value process_audio returned for the current run
    run_status,     \* per run: where the run ended
    success_count,  \* success_count of the batch loop
    summary_shown,  \* the "Processing complete!" line has been logged
    exit_status,    \* -1 while the process runs, then its exit status
    fs,             \* paths that hold a file under input_dir/converted and output_dir
    origin,         \* history: <<path, run>> for every write of a run
    overwritten,    \* history: paths written while they already held a file
    p4_listing,     \* per run: the os.listdir(phase03_dir) its Phase 4 read
    calls,          \* history: the adapter calls made, in order
    split_returned, \* history, per run: number of segments split_audio returned (-1: not yet)
    write_failures, \* history, per run: number of segment writes that raised
    voice_failures, \* history, per run: number of separate_voices calls that met a failure
    p3_event,       \* history: the separate_voices call of the last step (at most one)
    p4_restore_failed, \* history: the stem files whose restoration raised in the last step
    p4_filter_log,  \* history: what apply_vocal_exciter did and printed in the last step
    dirs,           \* the directories that exist under input_dir and output_dir
    mkdir_failed,   \* history: an os.makedirs call has raised
    faults          \* number of failures the environment has injected so far

vars == <<variant, pc, ffmpeg_path, listing, audio_files, file_idx, total_samples,
          segments, seg_idx, ret, run_status, success_count, summary_shown,
          exit_status, fs, origin, overwritten, p4_listing, calls, split_returned,
          write_failures, voice_failures, p3_event, p4_restore_failed,
          p4_filter_log, dirs, mkdir_failed, faults>>

---------------------------------------------------------------------------
\* Bounds of the model.
MaxFiles == 2
MaxFaults == 1

\* Program constants.
sr == 44100
segment_duration == 60

Variants == {"main", "debug"}

---------------------------------------------------------------------------
\* Paths and file names.  A path is [dir, name]: dir a sequence of directory
\* names, name a sequence of tokens whose concatenation is the file name.

input_dir == <<"source_audio">>
output_dir == <<"Audio_Processing_Output">>

Join(dir, name) == [dir |-> dir, name |-> name]

basename(path) == path.name

\* Tokens that start with a dot.
ExtTokens == {".wav", ".WAV", ".mp3", ".txt"}
DotTokens == ExtTokens \cup {".h"}

\* os.path.splitext(name): <<root, ext>>; a leading dot starts no extension.
splitext(name) ==
    IF Len(name) > 1 /\ name[Len(name)] \in ExtTokens
    THEN <<SubSeq(name, 1, Len(name) - 1), name[Len(name)]>>
    ELSE <<name, "">>

\* str.lower() of an extension token.
lower(ext) == IF ext = ".WAV" THEN ".wav" ELSE ext

\* file.endswith(".wav"): case-sensitive.
endswith_wav(name) == Len(name) > 0 /\ name[Len(name)] = ".wav"

\* file.startswith('.')
startswith_dot(name) == Len(name) > 0 /\ name[1] \in DotTokens

\* str(n) for the segment numbers the model reaches.
Decimal == <<"1", "2", "3", "4", "5", "6", "7", "8", "9">>
str(n) == Decimal[n]

Min(a, b) == IF a < b THEN a ELSE b

\* A sequence holding the elements of a finite set, in some fixed order
\* (os.listdir returns the entries in an arbitrary order).
RECURSIVE SetToSeq(_)
SetToSeq(S) ==
    IF S = {} THEN <<>>
    ELSE LET x == CHOOSE y \in S : TRUE IN <<x>> \o SetToSeq(S \ {x})

\* The set of elements of a sequence.
Range(s) == {s[i] : i \in 1..Len(s)}

---------------------------------------------------------------------------
\* Batch driver: discovery.

\* The entries the input directory may hold.
DirEntries ==
    { [name |-> <<"a", ".wav">>, isdir |-> FALSE],
      [name |-> <<"a", ".mp3">>, isdir |-> FALSE],
      [name |-> <<"b", ".WAV">>, isdir |-> FALSE],
      [name |-> <<".h", ".wav">>, isdir |-> FALSE],
      [name |-> <<"sub">>, isdir |-> TRUE],
      [name |-> <<"n", ".txt">>, isdir |-> FALSE] }

\* The directory listings of at most MaxFiles entries, in any order.
Listings ==
    UNION { { s \in [1..n -> DirEntries] :
                \A i, j \in 1..n : i # j => s[i] # s[j] } : n \in 0..MaxFiles }

supported_exts == {".wav", ".mp3", ".ogg", ".flac", ".aac", ".m4a", ".mp4"}

conversion_dir == input_dir \o <<"converted">>

\* convert_to_wav's output_file.
ConvertedPath(name) == Join(conversion_dir, splitext(name)[1] \o <<".wav">>)

\* get_audio_files (main): the list of wav files, given the set of listing
\* positions whose transcoding fails.
RECURSIVE get_audio_files(_, _, _)
get_audio_files(ls, i, convFail) ==
    IF i > Len(ls) THEN <<>>
    ELSE LET file == ls[i].name
             ext == lower(splitext(file)[2])
             rest == get_audio_files(ls, i + 1, convFail)
         IN IF ls[i].isdir \/ startswith_dot(file) THEN rest
            ELSE IF ext = ".wav" THEN <<Join(input_dir, file)>> \o rest
            ELSE IF ext \in supported_exts
                 THEN IF i \in convFail THEN rest
                      ELSE <<ConvertedPath(file)>> \o rest
            ELSE rest

\* The listing positions get_audio_files hands to convert_to_wav.
ConvertCalls(ls) ==
    { i \in 1..Len(ls) :
        /\ ~(ls[i].isdir \/ startswith_dot(ls[i].name))
        /\ lower(splitext(ls[i].name)[2]) # ".wav"
        /\ lower(splitext(ls[i].name)[2]) \in supported_exts }

\* script_debug.py __main__: every entry whose name ends with ".wav".
RECURSIVE input_files(_, _)
input_files(ls, i) ==
    IF i > Len(ls) THEN <<>>
    ELSE IF endswith_wav(ls[i].name)
         THEN <<Join(input_dir, ls[i].name)>> \o input_files(ls, i + 1)
         ELSE input_files(ls, i + 1)

---------------------------------------------------------------------------
\* The directories and files of process_audio.

phase01_dir == output_dir \o <<"Phase01_Reduced_Noise">>
phase02_dir == output_dir \o <<"Phase02_Segments">>
phase03_dir == output_dir \o <<"Phase03_Separated_Voices">>

phase04_dir(v) ==
    IF v = "main" THEN output_dir \o <<"Phase04_Enhanced">>
    ELSE output_dir \o <<"Phase04_Final_Enhancements">>

\* Phase01.__init__: the default model list.
model_names(v) ==
    IF v = "main" THEN <<"htdemucs", "mdx_extra_q">> ELSE <<"htdemucs">>

\* The path process_audio hands to split_audio.
main_output(v, input_file) ==
    IF v = "main" THEN Join(phase01_dir \o <<"htdemucs">>, basename(input_file))
    ELSE Join(phase01_dir, basename(input_file))

\* One entry of the call history.
Call(run, op, arg, model) == [run |-> run, op |-> op, arg |-> arg, model |-> model]

---------------------------------------------------------------------------
\* Phase 1: Phase01.separate_sources.  raiseAt is the position in the model
\* list of the model whose demucs run raises (0: none does).

\* The demucs calls made: the loop has no exception handler, so it ends at
\* the first model that raises.
separate_sources_calls(v, run, input_file, raiseAt) ==
    LET names == model_names(v)
        last == IF raiseAt = 0 THEN Len(names) ELSE raiseAt
    IN [k \in 1..last |-> Call(run, "demucs_separate", input_file, names[k])]

\* Whether separate_sources returns normally.
separate_sources_returns(raiseAt) == raiseAt = 0

\* The directories process_audio sets up before the loop over the models:
\* none in main; in debug the four phase directories, then reduce_noise
\* makes the Phase 1 directory once more.
phase1_setup_dirs(v) ==
    IF v = "main" THEN <<>>
    ELSE <<phase01_dir, phase02_dir, phase03_dir, phase04_dir(v), phase01_dir>>

\* The os.makedirs calls of Phase 1, in order: the setup, then the output
\* directory of each model the loop reaches.
phase1_dirs(v, raiseAt) ==
    LET names == model_names(v)
        last == IF raiseAt = 0 THEN Len(names) ELSE raiseAt
    IN phase1_setup_dirs(v) \o [k \in 1..last |-> phase01_dir \o <<names[k]>>]

\* The demucs calls made before the os.makedirs call number made + 1 raised.
calls_before_failed_makedirs(v, run, input_file, made) ==
    IF made <= Len(phase1_setup_dirs(v)) THEN <<>>
    ELSE separate_sources_calls(v, run, input_file, made - Len(phase1_setup_dirs(v)))

\* The directories made before the directory is listed: main makes the
\* input directory, and get_audio_files the converted directory.
discover_dirs(v) == IF v = "main" THEN <<input_dir, conversion_dir>> ELSE <<>>

---------------------------------------------------------------------------
\* Phase 2: Phase02.split_audio.  n is len(audio) (-1: the file is missing or
\* librosa.load raises); writeFail is the set of segment numbers whose
\* sf.write raises.

\* Python's range(i, stop, step) as a sequence.
RECURSIVE py_range(_, _, _)
py_range(i, stop, step) ==
    IF i >= stop THEN <<>> ELSE <<i>> \o py_range(i + step, stop, step)

\* int(total_duration), total_duration = len(audio) / sr.
int_total_duration(n) == n \div sr

\* The loop values of split_audio.
split_range(n) == py_range(0, int_total_duration(n), segment_duration)

\* The segment of loop value i: its path and the samples [start, end) it holds.
Segment(input_file, dir, n, i) ==
    [ path  |-> Join(dir, splitext(basename(input_file))[1]
                          \o <<"_segment_", str(i \div segment_duration + 1), ".wav">>),
      num   |-> i \div segment_duration + 1,
      start |-> i * sr,
      end   |-> Min((i + segment_duration) * sr, n) ]

RECURSIVE TakeUntilFail(_, _)
TakeUntilFail(segs, writeFail) ==
    IF segs = <<>> \/ Head(segs).num \in writeFail THEN <<>>
    ELSE <<Head(segs)>> \o TakeUntilFail(Tail(segs), writeFail)

RECURSIVE SkipFailed(_, _)
SkipFailed(segs, writeFail) ==
    IF segs = <<>> THEN <<>>
    ELSE IF Head(segs).num \in writeFail THEN SkipFailed(Tail(segs), writeFail)
    ELSE <<Head(segs)>> \o SkipFailed(Tail(segs), writeFail)

\* [written, returned]: the segment files written and the list returned.
\* main: one try around the whole body, any exception returns [].
\* debug: a try around each sf.write, a failed segment is skipped.
split_audio(v, input_file, dir, n, writeFail) ==
    IF n < 0 THEN [written |-> <<>>, returned |-> <<>>]
    ELSE LET r == split_range(n)
             all == [k \in 1..Len(r) |-> Segment(input_file, dir, n, r[k])]
         IN IF v = "main"
            THEN [ written  |-> TakeUntilFail(all, writeFail),
                   returned |-> IF \E k \in 1..Len(all) : all[k].num \in writeFail
                                THEN <<>> ELSE all ]
            ELSE [ written  |-> SkipFailed(all, writeFail),
                   returned |-> SkipFailed(all, writeFail) ]

\* The segment numbers split_audio tries to write.
split_numbers(n) ==
    IF n < 0 THEN {} ELSE { i \div segment_duration + 1 : i \in Range(split_range(n)) }

\* A process_audio that goes on to Phase 3 whatever split_audio returned.
after_split_always_proceeds(segs) == "phase3"

\* process_audio after split_audio: "if not segments: return".
after_split(segs) == IF segs = <<>> THEN "returned" ELSE "phase3"

\* The value process_audio returns when segmentation yields nothing.
abort_value(v) == IF v = "main" THEN "False" ELSE "None"

\* The value process_audio returns at its end.
done_value(v) == IF v = "main" THEN "True" ELSE "None"

---------------------------------------------------------------------------
\* Phase 3: Phase03.separate_voices.  The model's estimates are the stems of
\* StemNames, in this order; out is [load, stem]: load is FALSE when
\* librosa.load or predict.separate raises, stem maps each stem name to
\*   "ok"         the stem is written,
\*   "bad_shape"  an array that is neither 2-D nor 3-D,
\*   "write_fail" sf.write raises.
StemNames == <<"vocals", "drums">>
StemOutcomes == {"ok", "bad_shape", "write_fail"}

StemPath(segment_path, dir, instrument) ==
    Join(dir, basename(segment_path) \o <<"_", instrument, ".wav">>)

\* main: the whole body is in one try; the first stem that cannot be
\* written ends the loop.  debug: a bad shape skips the stem, and sf.write
\* is outside any try.
RECURSIVE stems_written(_, _, _, _, _)
stems_written(v, segment_path, dir, out, k) ==
    IF k > Len(StemNames) THEN <<>>
    ELSE LET o == out.stem[StemNames[k]]
             rest == stems_written(v, segment_path, dir, out, k + 1)
         IN IF o = "ok" THEN <<StemPath(segment_path, dir, StemNames[k])>> \o rest
            ELSE IF v = "debug" /\ o = "bad_shape" THEN rest
            ELSE <<>>

\* Whether an exception leaves separate_voices.
separate_voices_raises(v, out) ==
    /\ v = "debug"
    /\ out.load
    /\ \E k \in 1..Len(StemNames) :
          /\ out.stem[StemNames[k]] = "write_fail"
          /\ \A j \in 1..(k - 1) : out.stem[StemNames[j]] # "write_fail"

separate_voices(v, segment_path, dir, out) ==
    IF ~out.load THEN [written |-> <<>>, raises |-> FALSE]
    ELSE [ written |-> stems_written(v, segment_path, dir, out, 1),
           raises  |-> separate_voices_raises(v, out) ]

\* The number of failures an outcome holds.
OutcomeFaults(out) ==
    IF ~out.load THEN 1
    ELSE Cardinality({ k \in 1..Len(StemNames) : out.stem[StemNames[k]] # "ok" })

Outcomes ==
    { [load |-> l, stem |-> s] :
        l \in BOOLEAN, s \in [Range(StemNames) -> StemOutcomes] }

\* Outcomes that differ only after a failed load are the same outcome.
VoiceOutcomes ==
    { o \in Outcomes : ~o.load => \A x \in Range(StemNames) : o.stem[x] = "ok" }

---------------------------------------------------------------------------
\* Phase 4: the enhancement loop.

\* The output path of enhance_audio for a file of phase03_dir.
enhanced_path(v, file) ==
    IF v = "main" THEN Join(phase04_dir(v), <<"enhanced_">> \o file)
    ELSE Join(phase04_dir(v), splitext(file)[1] \o <<"_enhanced", ".wav">>)

\* The output path of apply_vocal_exciter (debug only).
final_path(v, file) == Join(phase04_dir(v), splitext(file)[1] \o <<"_final", ".wav">>)

\* os.listdir(dir) over the files of fs.
listdir(files, dir) == { p.name : p \in { q \in files : q.dir = dir } }

\* A selection that tests for the suffix in upper case.
selected_upper_suffix(names) == { f \in names : f[Len(f)] = ".WAV" }

\* The files of the listing the loop selects.
selected(names) == { f \in names : endswith_wav(f) }

\* The subsets of S with at most k elements.
RECURSIVE SubsetsUpTo(_, _)
SubsetsUpTo(S, k) ==
    IF k <= 0 THEN {{}}
    ELSE LET prev == SubsetsUpTo(S, k - 1)
         IN prev \cup { T \cup {x} : T \in prev, x \in S }

\* The calls of the loop for one file: enhance_audio, then (debug) the exciter.
enhance_calls(v, run, file) ==
    IF v = "main"
    THEN <<Call(run, "enhance_audio", Join(phase03_dir, file), "")>>
    ELSE <<Call(run, "enhance_audio", Join(phase03_dir, file), ""),
           Call(run, "apply_vocal_exciter", enhanced_path(v, file), "")>>

RECURSIVE phase4_calls(_, _, _)
phase4_calls(v, run, files) ==
    IF files = <<>> THEN <<>>
    ELSE enhance_calls(v, run, Head(files)) \o phase4_calls(v, run, Tail(files))

\* The files enhance_audio writes: restore of the files of restoreFail raises
\* and is caught in enhance_audio.
enhanced_written(v, sel, restoreFail) ==
    { enhanced_path(v, f) : f \in sel \ restoreFail }

\* The files whose exciter input exists when apply_vocal_exciter runs.
filter_inputs(v, files, sel, restoreFail) ==
    { f \in sel : enhanced_path(v, f) \in files \cup enhanced_written(v, sel, restoreFail) }

\* The files apply_vocal_exciter writes (debug): ffmpeg fails on a missing
\* input and on the files of filterFail; its exit status is not looked at.
final_written(v, files, sel, restoreFail, filterFail) ==
    IF v = "main" THEN {}
    ELSE { final_path(v, f) : f \in filter_inputs(v, files, sel, restoreFail) \ filterFail }

\* An enhance_audio without its try: a failed restoration leaves it.
enhance_audio_unguarded(v, restoreFail) == restoreFail # {}

\* Whether an exception leaves enhance_audio when the restoration of the
\* files of restoreFail raises: the except clause catches every Exception.
enhance_audio_raises(v, restoreFail) == FALSE

\* The exit status of the ffmpeg run of apply_vocal_exciter for the stem
\* file f: non-zero when its input is missing or the run itself fails.
exciter_returncode(v, files, sel, restoreFail, filterFail, f) ==
    IF f \in filter_inputs(v, files, sel, restoreFail) \ filterFail THEN 0 ELSE 1

\* What apply_vocal_exciter prints after the ffmpeg run.
exciter_report(returncode) == "applied"

\* The exciter runs of the Phase 4 loop (debug): per stem file the exit
\* status of ffmpeg and the line printed.
exciter_log(v, files, sel, restoreFail, filterFail) ==
    IF v = "main" THEN {}
    ELSE { [ file |-> f,
             returncode |-> exciter_returncode(v, files, sel, restoreFail, filterFail, f),
             reported |-> exciter_report(exciter_returncode(v, files, sel, restoreFail,
                                                            filterFail, f)) ] :
           f \in sel }

---------------------------------------------------------------------------
\* The state machine.

\* A directory path and the directories above it.
Prefixes(d) == { SubSeq(d, 1, k) : k \in 1..Len(d) }

\* The path d names a regular file of `files`.
IsFile(files, d) == \E q \in files : q.dir \o q.name = d

\* An os.makedirs(d) without exist_ok: it raises for a directory that exists.
makedirs_raises_without_exist_ok(ds, files, d) == d \in ds \/ IsFile(files, d)

\* Whether os.makedirs(d, exist_ok=True) raises: only when d exists and is
\* not a directory.
makedirs_raises(ds, files, d) == IsFile(files, d)

\* The directories after os.makedirs(d, exist_ok=True) returned: d and the
\* missing directories above it are created, nothing else changes.
makedirs(ds, d) == ds \cup Prefixes(d)

\* The os.makedirs calls of one step, in order, up to the first that raises:
\* the directories afterwards, the number of calls that returned, and
\* whether one raised.
RECURSIVE makedirs_seq(_, _, _, _)
makedirs_seq(ds, files, list, k) ==
    IF k > Len(list) THEN [dirs |-> ds, made |-> k - 1, raises |-> FALSE]
    ELSE IF makedirs_raises(ds, files, list[k])
         THEN [dirs |-> ds, made |-> k - 1, raises |-> TRUE]
         ELSE makedirs_seq(makedirs(ds, list[k]), files, list, k + 1)

\* What the output directory holds when the program starts: os.makedirs is
\* called with exist_ok=True and nothing is ever removed, so the stem
\* directory may already hold a file the program did not write.
InitialFiles == { {}, {Join(phase03_dir, <<"x", ".WAV">>)} }

Init ==
    /\ variant \in Variants
    /\ pc = "startup"
    /\ ffmpeg_path = "unset"
    /\ listing = <<>>
    /\ audio_files = <<>>
    /\ file_idx = 0
    /\ total_samples = -1
    /\ segments = <<>>
    /\ seg_idx = 1
    /\ ret = "None"
    /\ run_status = <<>>
    /\ success_count = 0
    /\ summary_shown = FALSE
    /\ exit_status = -1
    /\ fs \in InitialFiles
    /\ dirs = {input_dir} \cup UNION { Prefixes(q.dir) : q \in fs }
    /\ mkdir_failed = FALSE
    /\ origin = {}
    /\ overwritten = {}
    /\ p4_listing = <<>>
    /\ calls = <<>>
    /\ split_returned = <<>>
    /\ write_failures = <<>>
    /\ voice_failures = <<>>
    /\ p3_event = <<>>
    /\ p4_restore_failed = {}
    /\ p4_filter_log = {}
    /\ faults = 0

\* A step that is neither a separate_voices call nor the Phase 4 loop.
NoPhaseEvent ==
    /\ p3_event' = <<>>
    /\ p4_restore_failed' = {}
    /\ p4_filter_log' = {}

\* A write of the files `paths` by the current run.
Write(paths) ==
    /\ fs' = fs \cup paths
    /\ origin' = origin \cup { <<p, file_idx>> : p \in paths }
    /\ overwritten' = overwritten \cup (paths \cap fs)

\* An exception no handler catches: the interpreter prints the traceback and
\* exits with status 1.
Crash ==
    /\ pc' = "crashed"
    /\ exit_status' = 1

\* sys.exit(code)
Exit(code) ==
    /\ pc' = "exit"
    /\ exit_status' = code

\* The os.makedirs calls of a step.
MakeDirs(list) ==
    /\ dirs' = makedirs_seq(dirs, fs, list, 1).dirs
    /\ mkdir_failed' = (mkdir_failed \/ makedirs_seq(dirs, fs, list, 1).raises)

MakeDirsRaises(list) == makedirs_seq(dirs, fs, list, 1).raises

\* A step whose os.makedirs raises: no call site of os.makedirs is inside a
\* try, so the process ends; newcalls are the adapter calls made before it.
AbortedByMakeDirs(list, newcalls) ==
    /\ MakeDirs(list)
    /\ Crash
    /\ calls' = calls \o newcalls
    /\ run_status' = IF file_idx \in 1..Len(run_status)
                     THEN [run_status EXCEPT ![file_idx] = "RAISED"]
                     ELSE run_status
    /\ listing' = <<>>
    /\ p3_event' = <<>>
    /\ p4_restore_failed' = {}
    /\ p4_filter_log' = {}
    /\ UNCHANGED <<variant, ffmpeg_path, audio_files, file_idx, total_samples, segments,
                   seg_idx, ret, success_count, summary_shown, fs, origin, overwritten,
                   p4_listing, split_returned, write_failures, voice_failures, faults>>

\* The well-known locations check_ffmpeg looks at, in its order.
possible_paths ==
    <<"/usr/local/bin/ffmpeg", "/usr/bin/ffmpeg", "/opt/homebrew/bin/ffmpeg",
      "C:\\FFmpeg\\bin\\ffmpeg.exe">>

\* The loop over possible_paths from position k: the first that exists.
RECURSIVE first_existing(_, _)
first_existing(installed, k) ==
    IF k > Len(possible_paths) THEN "none"
    ELSE IF possible_paths[k] \in installed THEN possible_paths[k]
    ELSE first_existing(installed, k + 1)

\* check_ffmpeg: probe is what running "ffmpeg -version" did ("ok", or
\* "not_found" for FileNotFoundError); "none" stands for None.  A probe
\* that exits non-zero raises CalledProcessError, which is not caught.
check_ffmpeg(probe, installed) ==
    IF probe = "ok" THEN "ffmpeg" ELSE first_existing(installed, 1)

\* The installations of the transcoder outside PATH that are explored.
Installations == { {}, {"/usr/bin/ffmpeg"} }

\* check_ffmpeg and the test of its result (main); debug names "ffmpeg"
\* without looking for it.  A probe that raises (FileNotFoundError, or the
\* CalledProcessError nothing catches) is one injected failure.
Startup ==
    /\ NoPhaseEvent
    /\ pc = "startup"
    /\ IF variant = "main"
       THEN \/ \E probe \in {"ok", "not_found"} : \E installed \in Installations :
                 LET found == check_ffmpeg(probe, installed)
                     nfail == IF probe = "ok" THEN 0 ELSE 1
                 IN /\ probe = "ok" => installed = {}
                    /\ nfail <= MaxFaults - faults
                    /\ faults' = faults + nfail
                    /\ ffmpeg_path' = found
                    /\ IF found = "none" THEN Exit(1)
                       ELSE pc' = "discover" /\ UNCHANGED exit_status
            \/ /\ faults < MaxFaults
               /\ faults' = faults + 1
               /\ Crash
               /\ UNCHANGED ffmpeg_path
       ELSE /\ ffmpeg_path' = "ffmpeg"
            /\ pc' = "discover"
            /\ UNCHANGED <<exit_status, faults>>
    /\ UNCHANGED <<variant, listing, audio_files, file_idx, total_samples, segments,
                   seg_idx, ret, run_status, success_count, summary_shown, fs,
                   origin, overwritten, p4_listing, calls, split_returned,
                   write_failures, voice_failures>>
    /\ UNCHANGED <<dirs, mkdir_failed>>

\* A driver that starts the batch whatever discovery found.
after_discover_always_proceeds(v, files) == "init_pipeline"

\* The test that follows discovery: main leaves with status 1 when no file
\* was found, debug goes on with an empty list.
after_discover(v, files) ==
    IF v = "main" /\ files = <<>> THEN "exit" ELSE "init_pipeline"

\* get_audio_files and the test of its result (main); the list
\* comprehension of script_debug.py (debug).
Discover ==
    /\ pc = "discover"
    /\ IF MakeDirsRaises(discover_dirs(variant))
       THEN AbortedByMakeDirs(discover_dirs(variant), <<>>)
       ELSE /\ MakeDirs(discover_dirs(variant))
            /\ NoPhaseEvent
            /\ \E ls \in Listings :
                 \E convFail \in SubsetsUpTo(ConvertCalls(ls), MaxFaults - faults) :
                   LET files == IF variant = "main" THEN get_audio_files(ls, 1, convFail)
                                ELSE input_files(ls, 1)
                       conv == IF variant = "main"
                               THEN { ConvertedPath(ls[i].name) : i \in ConvertCalls(ls) \ convFail }
                               ELSE {}
                       nfail == IF variant = "main" THEN Cardinality(convFail) ELSE 0
                   IN /\ variant = "debug" => convFail = {}
                      /\ listing' = <<Range(ls)>>
                      /\ audio_files' = files
                      /\ faults' = faults + nfail
                      /\ Write(conv)
                      /\ IF after_discover(variant, files) = "exit" THEN Exit(1)
                         ELSE pc' = after_discover(variant, files) /\ UNCHANGED exit_status
            /\ UNCHANGED <<variant, ffmpeg_path, file_idx, total_samples, segments, seg_idx,
                           ret, run_status, success_count, summary_shown, p4_listing, calls,
                           split_returned, write_failures, voice_failures>>

\* AudioProcessingPipeline(...) builds Phase04, whose constructor loads
\* VoiceFixer; main then loads it once more inside a try that exits with 1.
InitPipeline ==
    /\ NoPhaseEvent
    /\ pc = "init_pipeline"
    /\ \E load \in {"ok", "constructor_raises", "preload_raises"} :
         /\ load # "ok" => faults < MaxFaults
         /\ load = "preload_raises" => variant = "main"
         /\ faults' = IF load = "ok" THEN faults ELSE faults + 1
         /\ IF load = "ok" THEN pc' = "loop" /\ UNCHANGED exit_status
            ELSE IF load = "constructor_raises" THEN Crash
            ELSE Exit(1)
    /\ listing' = <<>>
    /\ UNCHANGED <<variant, ffmpeg_path, audio_files, file_idx, total_samples,
                   segments, seg_idx, ret, run_status, success_count, summary_shown,
                   fs, origin, overwritten, p4_listing, calls, split_returned,
                   write_failures, voice_failures>>
    /\ UNCHANGED <<dirs, mkdir_failed>>

\* The head of the batch loop: the next file's process_audio begins.
BeginRun ==
    /\ NoPhaseEvent
    /\ pc = "loop"
    /\ file_idx < Len(audio_files)
    /\ file_idx' = file_idx + 1
    /\ run_status' = Append(run_status, "START")
    /\ p4_listing' = Append(p4_listing, {})
    /\ split_returned' = Append(split_returned, -1)
    /\ write_failures' = Append(write_failures, 0)
    /\ voice_failures' = Append(voice_failures, 0)
    /\ total_samples' = -1
    /\ segments' = <<>>
    /\ seg_idx' = 1
    /\ ret' = "None"
    /\ pc' = "phase1"
    /\ UNCHANGED <<variant, ffmpeg_path, listing, audio_files, success_count,
                   summary_shown, exit_status, fs, origin, overwritten, calls, faults>>
    /\ UNCHANGED <<dirs, mkdir_failed>>

\* The input file of the current run.
input_file == audio_files[file_idx]

SetStatus(st) == run_status' = [run_status EXCEPT ![file_idx] = st]

\* Phase 1 of process_audio: Phase01.separate_sources on the input file.
Phase01SeparateSources ==
    /\ pc = "phase1"
    /\ \E raiseAt \in 0..Len(model_names(variant)) :
         LET made == phase1_dirs(variant, raiseAt)
         IN /\ raiseAt # 0 => faults < MaxFaults
            /\ IF MakeDirsRaises(made)
               THEN AbortedByMakeDirs(
                        made,
                        calls_before_failed_makedirs(
                            variant, file_idx, input_file,
                            makedirs_seq(dirs, fs, made, 1).made))
               ELSE /\ MakeDirs(made)
                    /\ NoPhaseEvent
                    /\ faults' = IF raiseAt = 0 THEN faults ELSE faults + 1
                    /\ calls' = calls \o separate_sources_calls(variant, file_idx,
                                                               input_file, raiseAt)
                    /\ IF separate_sources_returns(raiseAt)
                       THEN /\ pc' = "phase2"
                            /\ SetStatus("REDUCED")
                            /\ UNCHANGED exit_status
                       ELSE /\ Crash
                            /\ SetStatus("RAISED")
                    /\ UNCHANGED <<variant, ffmpeg_path, listing, audio_files, file_idx,
                                   total_samples, segments, seg_idx, ret, success_count,
                                   summary_shown, fs, origin, overwritten, p4_listing,
                                   split_returned, write_failures, voice_failures>>

\* The lengths, in samples, of the audio split_audio loads: nothing and one
\* whole segment duration, and those plus half a second and plus a second
\* (0 s, 0.5 s, 1 s, 60 s, 60.5 s, 61 s: at most two segments).
Tails == {0, sr \div 2, sr}
AudioLengths ==
    { k * segment_duration * sr + r : k \in {0, 1}, r \in Tails }

\* Phase 2 of process_audio: Phase02.split_audio on the Phase 1 output, and
\* the test of its result.
Phase02SplitAudio ==
    /\ pc = "phase2"
    /\ IF MakeDirsRaises(<<phase02_dir>>)
       THEN AbortedByMakeDirs(<<phase02_dir>>, <<>>)
       ELSE /\ MakeDirs(<<phase02_dir>>)
            /\ NoPhaseEvent
            /\ \E n \in AudioLengths \cup {-1} :
                 \E writeFail \in SubsetsUpTo(split_numbers(n), MaxFaults - faults) :
                   LET src == main_output(variant, input_file)
                       res == split_audio(variant, src, phase02_dir, n, writeFail)
                       next == after_split(res.returned)
                   IN /\ total_samples' = n
                      /\ segments' = res.returned
                      /\ seg_idx' = 1
                      /\ faults' = faults + Cardinality(writeFail)
                      /\ split_returned' = [split_returned EXCEPT ![file_idx] = Len(res.returned)]
                      /\ write_failures' = [write_failures EXCEPT ![file_idx] = Cardinality(writeFail)]
                      /\ Write({ sg.path : sg \in Range(res.written) })
                      /\ calls' = Append(calls, Call(file_idx, "split_audio", src, ""))
                      /\ pc' = next
                      /\ IF next = "returned"
                         THEN ret' = abort_value(variant) /\ SetStatus("ABORTED")
                         ELSE UNCHANGED ret /\ SetStatus("SEGMENTED")
            /\ UNCHANGED <<variant, ffmpeg_path, listing, audio_files, file_idx, success_count,
                           summary_shown, exit_status, p4_listing, voice_failures>>

\* A Phase 3 loop that ends after its first segment.
segments_left_first_only(idx, segs) == idx <= Min(1, Len(segs))

\* The loop "for segment in segments" of process_audio: whether a segment
\* is still to be handed to separate_voices.
segments_left(idx, segs) == idx <= Len(segs)

\* Phase 3 of process_audio: Phase03.separate_voices on the next segment.
Phase03SeparateVoices ==
    /\ pc = "phase3"
    /\ segments_left(seg_idx, segments)
    /\ IF MakeDirsRaises(<<phase03_dir>>)
       THEN AbortedByMakeDirs(<<phase03_dir>>, <<>>)
       ELSE /\ MakeDirs(<<phase03_dir>>)
            /\ \E out \in VoiceOutcomes :
                 LET seg == segments[seg_idx].path
                     res == separate_voices(variant, seg, phase03_dir, out)
                 IN /\ OutcomeFaults(out) <= MaxFaults - faults
                    /\ faults' = faults + OutcomeFaults(out)
                    /\ voice_failures' =
                         [voice_failures EXCEPT ![file_idx] = @ + IF OutcomeFaults(out) > 0 THEN 1 ELSE 0]
                    /\ Write(Range(res.written))
                    /\ calls' = Append(calls, Call(file_idx, "separate_voices", seg, ""))
                    /\ p3_event' = <<[run |-> file_idx, seg |-> seg, out |-> out]>>
                    /\ p4_restore_failed' = {}
                    /\ p4_filter_log' = {}
                    /\ IF res.raises
                       THEN /\ Crash
                            /\ SetStatus("RAISED")
                            /\ UNCHANGED seg_idx
                       ELSE /\ seg_idx' = seg_idx + 1
                            /\ SetStatus(IF seg_idx = Len(segments) THEN "SEPARATED"
                                         ELSE "SEGMENTED")
                            /\ UNCHANGED <<pc, exit_status>>
            /\ UNCHANGED <<variant, ffmpeg_path, listing, audio_files, file_idx, total_samples,
                           segments, ret, success_count, summary_shown, p4_listing,
                           split_returned, write_failures>>

\* Phase 4 of process_audio: the loop over os.listdir(phase03_dir), and the
\* return at the end of process_audio.
Phase04Enhance ==
    /\ pc = "phase3"
    /\ ~segments_left(seg_idx, segments)
    /\ IF MakeDirsRaises(<<phase04_dir(variant)>>)
       THEN AbortedByMakeDirs(<<phase04_dir(variant)>>, <<>>)
       ELSE /\ MakeDirs(<<phase04_dir(variant)>>)
            /\ LET names == listdir(fs, phase03_dir)
                   sel == selected(names)
               IN \E restoreFail \in SubsetsUpTo(sel, MaxFaults - faults) :
                    \E filterFail \in SubsetsUpTo(filter_inputs(variant, fs, sel, restoreFail),
                                                  MaxFaults - faults - Cardinality(restoreFail)) :
                      /\ variant = "main" => filterFail = {}
                      /\ faults' = faults + Cardinality(restoreFail) + Cardinality(filterFail)
                      /\ p4_listing' = [p4_listing EXCEPT ![file_idx] = names]
                      /\ Write(enhanced_written(variant, sel, restoreFail)
                               \cup final_written(variant, fs, sel, restoreFail, filterFail))
                      /\ calls' = calls \o phase4_calls(variant, file_idx, SetToSeq(sel))
                      /\ p3_event' = <<>>
                      /\ p4_restore_failed' = restoreFail
                      /\ p4_filter_log' = exciter_log(variant, fs, sel, restoreFail, filterFail)
                      /\ IF enhance_audio_raises(variant, restoreFail)
                         THEN /\ Crash
                              /\ SetStatus("RAISED")
                              /\ UNCHANGED ret
                         ELSE /\ ret' = done_value(variant)
                              /\ SetStatus("DONE")
                              /\ pc' = "returned"
                              /\ UNCHANGED exit_status
            /\ UNCHANGED <<variant, ffmpeg_path, listing, audio_files, file_idx, total_samples,
                           segments, seg_idx, success_count, summary_shown,
                           split_returned, write_failures, voice_failures>>

\* A batch loop that counts every run, whatever process_audio returned.
count_every_run(v, r, count) == IF v = "main" THEN count + 1 ELSE count

\* The batch loop's use of the value process_audio returned.
count_success(v, r, count) == IF v = "main" /\ r = "True" THEN count + 1 ELSE count

EndRun ==
    /\ NoPhaseEvent
    /\ pc = "returned"
    /\ success_count' = count_success(variant, ret, success_count)
    /\ pc' = "loop"
    /\ UNCHANGED <<variant, ffmpeg_path, listing, audio_files, file_idx, total_samples,
                   segments, seg_idx, ret, run_status, summary_shown, exit_status, fs,
                   origin, overwritten, p4_listing, calls, split_returned,
                   write_failures, voice_failures, faults>>
    /\ UNCHANGED <<dirs, mkdir_failed>>

\* The exit status of the script once the loop is over: after the summary
\* (and the warning when some file failed) the script ends.
final_exit_status(v, successes, total) == 0

\* The end of the batch loop: the summary line (main) and the end of the script.
FinishBatch ==
    /\ NoPhaseEvent
    /\ pc = "loop"
    /\ file_idx = Len(audio_files)
    /\ summary_shown' = (variant = "main")
    /\ Exit(final_exit_status(variant, success_count, Len(audio_files)))
    /\ UNCHANGED <<variant, ffmpeg_path, listing, audio_files, file_idx, total_samples,
                   segments, seg_idx, ret, run_status, success_count, fs, origin,
                   overwritten, p4_listing, calls, split_returned, write_failures,
                   voice_failures, faults>>
    /\ UNCHANGED <<dirs, mkdir_failed>>

Next ==
    \/ Startup
    \/ Discover
    \/ InitPipeline
    \/ BeginRun
    \/ Phase01SeparateSources
    \/ Phase02SplitAudio
    \/ Phase03SeparateVoices
    \/ Phase04Enhance
    \/ EndRun
    \/ FinishBatch

Spec == Init /\ [][Next]_vars

---------------------------------------------------------------------------
\* Vocabulary of the properties.

Runs == 1..Len(run_status)

\* The calls of operation op made for run i, in order.
CallsOf(i, op) ==
    LET Is(c) == c.run = i /\ c.op = op IN SelectSeq(calls, Is)

NumCalls(i, op) == Len(CallsOf(i, op))

\* process_audio of run i is over: it returned, or the process ended.
RunOver(i) == i < file_idx \/ pc \in {"returned", "loop", "exit", "crashed"}

DoneRuns == { i \in Runs : run_status[i] = "DONE" }

Ceil(a, b) == (a + b - 1) \div b

\* split_audio of the current run has returned, and none of its writes raised.
SplitReturnedClean ==
    /\ file_idx >= 1
    /\ split_returned[file_idx] >= 0
    /\ write_failures[file_idx] = 0

---------------------------------------------------------------------------
\* C1: a run whose split_audio returned no segment ends as failed (ABORTED,
\* never returning True), and no separate_voices, enhance_audio or
\* apply_vocal_exciter call is ever made for it.
C1_EmptySplitAbortsRun ==
    \A i \in Runs :
      split_returned[i] = 0 =>
        /\ run_status[i] = "ABORTED"
        /\ NumCalls(i, "separate_voices") = 0
        /\ NumCalls(i, "enhance_audio") = 0
        /\ NumCalls(i, "apply_vocal_exciter") = 0
        /\ (i = file_idx => ret # "True")

\* A run that got no segment ended, while stems of an earlier run lie in the
\* Phase 3 directory for a Phase 4 loop to find.
C1_Witness ==
    /\ file_idx = 2
    /\ pc = "loop"
    /\ split_returned[2] = 0
    /\ run_status[1] = "DONE"
    /\ listdir(fs, phase03_dir) # {}

\* C2: a failure inside one run never keeps the batch driver from starting
\* the run of every following file and from reaching the final summary: when
\* the process has ended after the loop began, every file had its run and
\* (main) the summary line was shown.
C2_BatchSurvivesRunFailure ==
    (pc \in {"exit", "crashed"} /\ file_idx >= 1) =>
        /\ Len(run_status) = Len(audio_files)
        /\ (variant = "main" => summary_shown)

\* C3: for a decodable input of D > 0 seconds, split_audio, when every
\* write succeeds, returns exactly ceil(D/S) segments, segment i (0-based)
\* being the samples [i*S*sr, min((i+1)*S*sr, total_samples)).
C3_SegmentCountIsCeil ==
    (SplitReturnedClean /\ total_samples > 0) =>
        /\ split_returned[file_idx] = Ceil(total_samples, segment_duration * sr)
        /\ (pc = "phase3" =>
              \A k \in 1..Len(segments) :
                 /\ segments[k].start = (k - 1) * segment_duration * sr
                 /\ segments[k].end = Min(k * segment_duration * sr, total_samples))

\* C4: when every write succeeds, the segments of one parent are contiguous
\* and non-overlapping, the first starts at sample 0 and the last ends at
\* the parent's last sample, and only the last may be shorter than S.
C4_SegmentsCoverParent ==
    (SplitReturnedClean /\ total_samples > 0 /\ pc \in {"phase3", "returned"}) =>
        /\ segments # <<>>
        /\ segments[1].start = 0
        /\ segments[Len(segments)].end = total_samples
        /\ \A k \in 1..(Len(segments) - 1) :
              /\ segments[k].end = segments[k + 1].start
              /\ segments[k].end - segments[k].start = segment_duration * sr

\* C5: a failure of the voice separation of exactly one segment of a run
\* does not abort the run: once the run is over, separate_voices was called
\* for every one of its segments and the run went through Phase 4.
C5_OneSegmentFailureIsIsolated ==
    \A i \in Runs :
      (split_returned[i] > 0 /\ voice_failures[i] = 1 /\ RunOver(i)) =>
        /\ NumCalls(i, "separate_voices") = split_returned[i]
        /\ run_status[i] = "DONE"

\* C6: a failure of demucs for one model identifier is absorbed in
\* separate_sources: once Phase 1 of a run is over, every identifier of the
\* list was run, in order, and the run went on to split_audio.
C6_ModelFailureIsAbsorbed ==
    \A i \in Runs :
      run_status[i] # "START" =>
        /\ [k \in 1..NumCalls(i, "demucs_separate") |->
               CallsOf(i, "demucs_separate")[k].model] = model_names(variant)
        /\ ((i = file_idx /\ pc = "phase2") \/ NumCalls(i, "split_audio") = 1)

\* C7: a run is counted as a success only if it went through Phase 4 to the
\* end of process_audio; a run that stopped at segmentation is never counted;
\* at the summary the count is the number of runs that reached DONE, and it
\* never exceeds the total.
C7_SuccessCountIsDoneRuns ==
    /\ success_count <= Cardinality(DoneRuns)
    /\ success_count <= Len(audio_files)
    /\ (pc = "returned" /\ ret = "True") => run_status[file_idx] = "DONE"
    /\ summary_shown => success_count = Cardinality(DoneRuns)

\* The summary of a batch in which one run succeeded and one stopped at
\* segmentation.
C7_Witness ==
    /\ summary_shown
    /\ success_count = 1
    /\ \E i \in Runs : run_status[i] = "ABORTED"
    /\ \E i \in Runs : run_status[i] = "DONE"

\* C8: at the end of a batch the process exits with status 0 when at least
\* one run succeeded, and with another status when none did.
C8_ExitStatusTellsSuccess ==
    (pc = "exit" /\ summary_shown) => (exit_status = 0 <=> success_count >= 1)

\* C9: the directory Phase 3 writes to is the run's own: every file of the
\* listing Phase 4 of a run reads is a stem that same run wrote.
C9_StemDirectoryIsPerRun ==
    \A i \in Runs :
      \A f \in p4_listing[i] : <<Join(phase03_dir, f), i>> \in origin

\* C10: no phase writes to a path of the output directory that already
\* holds a file written earlier in the batch.
C10_OutputIsAppendOnly ==
    \A p \in overwritten : SubSeq(p.dir, 1, Len(output_dir)) # output_dir

---------------------------------------------------------------------------
\* Discovery is over: get_audio_files (or the list comprehension) returned.
Discovered == pc \notin {"startup", "discover"} /\ ffmpeg_path \notin {"unset", "none"}

\* A non-hidden regular file of the input directory.
VisibleFile(e) == ~e.isdir /\ e.name[1] \notin DotTokens

\* The extension of an entry, in lower case.
LowerExt(e) == lower(splitext(e.name)[2])

\* The files the batch driver is to hand over for the directory content
\* ls: the visible .wav files, and the converted copy of each visible file
\* of another allow-listed extension whose transcoding left its copy in the
\* converted directory.
ExpectedHanded(ls) ==
    { Join(input_dir, e.name) : e \in { x \in ls : VisibleFile(x) /\ LowerExt(x) = ".wav" } }
    \cup
    { q \in { Join(input_dir \o <<"converted">>, splitext(e.name)[1] \o <<".wav">>) :
                e \in { x \in ls : /\ VisibleFile(x)
                                   /\ LowerExt(x) \in {".mp3", ".ogg", ".flac", ".aac",
                                                       ".m4a", ".mp4"} } } :
        q \in fs }

\* C11: the files handed to the orchestrator are exactly the visible .wav
\* files and the converted copies of the visible allow-listed files whose
\* transcoding succeeded (checked when discovery has just read the
\* directory), and process_audio is started once per handed file.
C11_HandedFilesAreTheAllowListed ==
    /\ \A k \in 1..Len(listing) :
          /\ Range(audio_files) = ExpectedHanded(listing[k])
          /\ Len(audio_files) = Cardinality(ExpectedHanded(listing[k]))
    /\ (pc = "exit" /\ exit_status = 0) => Len(run_status) = Len(audio_files)

\* No processing run was started: no run has a status, no adapter was called.
NoRunStarted == run_status = <<>> /\ calls = <<>> /\ file_idx = 0

\* C12: in Processing_Pipeline.py, when check_ffmpeg finds no transcoder, or
\* discovery returns no file, the program has exited with a non-zero status
\* and no processing run was started.
C12_NothingToDoExitsNonZero ==
    variant = "main" =>
        /\ ffmpeg_path = "none" => pc = "exit" /\ exit_status > 0 /\ NoRunStarted
        /\ (Discovered /\ audio_files = <<>>) =>
               pc = "exit" /\ exit_status > 0 /\ NoRunStarted

\* The input directory holds entries, none of them usable, and the program
\* has left with status 1.
C12_Witness ==
    /\ variant = "main"
    /\ Discovered
    /\ listing # <<>>
    /\ listing[1] # {}
    /\ audio_files = <<>>
    /\ pc = "exit"
    /\ exit_status = 1

\* The directory the output layout and the help text promise for Phase 4.
Phase04_Final_Enhancements == output_dir \o <<"Phase04_Final_Enhancements">>

\* The files Phase 4 is to leave for the stem file `f`: <base>_enhanced.wav,
\* and the filtered <base>_final.wav next to it.
ExpectedPhase04(f) ==
    { Join(Phase04_Final_Enhancements, splitext(f)[1] \o <<"_enhanced", ".wav">>),
      Join(Phase04_Final_Enhancements, splitext(f)[1] \o <<"_final", ".wav">>) }

\* C13: in every variant, the restored file of stem <base>.wav is
\* <output_dir>/Phase04_Final_Enhancements/<base>_enhanced.wav: whatever the
\* program wrote under output_dir outside the segment and stem directories
\* is such a file (or its filtered copy) of a stem in the stem directory.
C13_RestoredFileIsInFinalEnhancements ==
    \A p \in fs :
        ( /\ Len(p.dir) >= Len(output_dir)
          /\ SubSeq(p.dir, 1, Len(output_dir)) = output_dir
          /\ p.dir \notin {phase02_dir, phase03_dir} )
        => \E f \in listdir(fs, phase03_dir) : p \in ExpectedPhase04(f)

\* C14: the path handed to split_audio lies in
\* <output_dir>/Phase01_Reduced_Noise/<models[0]>/, the directory the
\* source-separation adapter writes into for its first model, and is never
\* the raw input path of the run.
C14_SegmenterReadsFirstModelOutput ==
    \A k \in 1..Len(calls) :
        calls[k].op = "split_audio" =>
            /\ calls[k].arg.dir = (output_dir \o <<"Phase01_Reduced_Noise">>)
                                      \o <<model_names(variant)[1]>>
            /\ calls[k].arg # audio_files[calls[k].run]

\* C15: when the write of exactly one segment fails in split_audio, the
\* other segments in range are written and returned (all but one), and the
\* run is not aborted while a segment remains.
C15_SegmentWriteFailureIsIsolated ==
    ( /\ pc \in {"phase3", "returned"}
      /\ file_idx \in Runs
      /\ total_samples >= 0
      /\ write_failures[file_idx] = 1 )
    => /\ split_returned[file_idx] = Len(split_range(total_samples)) - 1
       /\ Len(split_range(total_samples)) >= 2 => run_status[file_idx] # "ABORTED"

\* The stems of a separate_voices outcome that were not persisted as "ok".
BadStems(out) == { x \in Range(StemNames) : out.stem[x] # "ok" }

\* C16: when the model returned its stems and exactly one of them has an
\* unexpected shape or cannot be persisted, separate_voices has written
\* every other stem of the segment and no exception has left it.
C16_StemFailureIsIsolated ==
    \A k \in 1..Len(p3_event) :
        LET e == p3_event[k]
        IN (e.out.load /\ Cardinality(BadStems(e.out)) = 1) =>
              /\ \A x \in Range(StemNames) \ BadStems(e.out) :
                    <<StemPath(e.seg, phase03_dir, x), e.run>> \in origin
              /\ pc # "crashed"

\* The .wav files the stem directory holds, as paths.
StemFilesPresent ==
    { Join(phase03_dir, f) : f \in { g \in listdir(fs, phase03_dir) : endswith_wav(g) } }

\* The positions of the call history where run i called enhance_audio on a.
EnhanceCallsOn(i, a) ==
    { k \in 1..Len(calls) :
        calls[k].run = i /\ calls[k].op = "enhance_audio" /\ calls[k].arg = a }

\* C17: when Phase 4 of a run is over, enhance_audio was called exactly once
\* for each .wav file the stem directory held when Phase 4 started, whichever
\* run wrote it, and for nothing else.  (Phase 4 writes nothing into the stem
\* directory, so its content at the return is its content at the start.)
C17_EnhancesEveryStemFilePresent ==
    (pc = "returned" /\ file_idx \in Runs /\ run_status[file_idx] = "DONE") =>
        /\ p4_listing[file_idx] = listdir(fs, phase03_dir)
        /\ \A a \in StemFilesPresent : Cardinality(EnhanceCallsOn(file_idx, a)) = 1
        /\ \A k \in 1..Len(calls) :
              (calls[k].run = file_idx /\ calls[k].op = "enhance_audio")
                  => calls[k].arg \in StemFilesPresent

\* The second run has enhanced a stem file that only the first run wrote.
C17_Witness ==
    /\ pc = "returned"
    /\ file_idx = 2
    /\ run_status[2] = "DONE"
    /\ \E a \in StemFilesPresent :
          /\ <<a, 1>> \in origin
          /\ <<a, 2>> \notin origin
          /\ EnhanceCallsOn(2, a) # {}

\* The phase an adapter call belongs to.
PhaseOf(op) ==
    CASE op = "demucs_separate"     -> 1
      [] op = "split_audio"         -> 2
      [] op = "separate_voices"     -> 3
      [] op = "enhance_audio"       -> 4
      [] op = "apply_vocal_exciter" -> 4

\* C18: the adapter calls are made run after run and, within a run, phase
\* after phase (each call against the one that follows it, which orders all
\* of them); a run that reached Phase 4 has made the voice-separation
\* call of every segment split_audio returned; and while a run is under way
\* every earlier run has returned, done or aborted.
C18_PhasesAndRunsAreSequential ==
    /\ \A k \in 1..(Len(calls) - 1) :
          /\ calls[k].run <= calls[k + 1].run
          /\ calls[k].run = calls[k + 1].run
                => PhaseOf(calls[k].op) <= PhaseOf(calls[k + 1].op)
    /\ \A i \in Runs :
          (run_status[i] = "DONE" \/ NumCalls(i, "enhance_audio") > 0)
              => NumCalls(i, "separate_voices") = split_returned[i]
    /\ \A k \in 1..Len(calls) : calls[k].run <= file_idx
    /\ \A i \in Runs : i < file_idx => run_status[i] \in {"DONE", "ABORTED"}

\* The second run of a batch has enhanced the stems of its two segments
\* after the first run enhanced its own.
C18_Witness ==
    /\ pc = "returned"
    /\ file_idx = 2
    /\ split_returned[2] = 2
    /\ NumCalls(2, "separate_voices") = 2
    /\ NumCalls(2, "enhance_audio") > 0
    /\ NumCalls(1, "enhance_audio") > 0

\* C19: when the restoration of a stem file raised during the Phase 4 loop,
\* enhance_audio was still called once for every .wav file of the stem
\* directory, and the run returned as done (with True in
\* Processing_Pipeline.py, where the batch loop counts it) and the process
\* goes on.
C19_RestorationFailureIsNotFatal ==
    p4_restore_failed # {} =>
        /\ pc = "returned"
        /\ file_idx \in Runs
        /\ run_status[file_idx] = "DONE"
        /\ variant = "main" => ret = "True"
        /\ \A a \in StemFilesPresent : Cardinality(EnhanceCallsOn(file_idx, a)) = 1

\* The restoration of one of several stem files raised.
C19_Witness ==
    /\ p4_restore_failed # {}
    /\ Cardinality(StemFilesPresent) >= 2
    /\ Cardinality(p4_restore_failed) < Cardinality(StemFilesPresent)
    /\ pc = "returned"

\* C20: an ffmpeg run of apply_vocal_exciter that ends with a non-zero
\* status is reported as a failure, never as an applied filter, and the
\* Phase 4 loop goes on to the remaining files and returns.
C20_FilterFailureIsReported ==
    \A e \in p4_filter_log :
        e.returncode # 0 => /\ e.reported = "failed"
                            /\ pc = "returned"

\* The positions of the call history where run i called apply_vocal_exciter
\* for the stem file f, that is on the enhanced file of f.
ExciterCallsFor(i, f) ==
    { k \in 1..Len(calls) :
        /\ calls[k].run = i
        /\ calls[k].op = "apply_vocal_exciter"
        /\ calls[k].arg = Join(Phase04_Final_Enhancements,
                               splitext(f)[1] \o <<"_enhanced", ".wav">>) }

\* C21: in Phase04.process_audio the filter step runs for a stem only on the
\* enhanced file its own restoration produced: for a stem file whose
\* restoration raised in the Phase 4 loop just run, no apply_vocal_exciter
\* call was made and no exciter run was logged.
C21_NoFilterAfterFailedRestoration ==
    \A f \in p4_restore_failed :
        /\ ExciterCallsFor(file_idx, f) = {}
        /\ \A e \in p4_filter_log : e.file # f

\* C22: the Phase 4 loop selects a file of the stem directory exactly when
\* its name ends with the suffix .wav compared without regard to case: when
\* Phase 4 of a run is over, enhance_audio has been called for X.WAV as for
\* X.wav, and for no other file.
C22_SuffixIsMatchedIgnoringCase ==
    (pc = "returned" /\ file_idx \in Runs /\ run_status[file_idx] = "DONE") =>
        \A f \in listdir(fs, phase03_dir) :
            (lower(f[Len(f)]) = ".wav")
                <=> (EnhanceCallsOn(file_idx, Join(phase03_dir, f)) # {})

\* C23: every file lies in a directory that exists, so each phase's
\* directory was there before the phase wrote into it; no os.makedirs call
\* has raised, however often a directory was set up again; and no step
\* removes a directory or a file that was there.
C23_DirectorySetupIsIdempotent ==
    /\ [](/\ \A q \in fs : q.dir \in dirs
          /\ ~mkdir_failed)
    /\ [][fs \subseteq fs' /\ dirs \subseteq dirs']_vars

\* A second run has set up the phase directories again, made two
\* separate_voices calls into the same stem directory, and finished, while
\* the segment directory still holds a segment of the first run.
C23_Witness ==
    /\ pc = "returned"
    /\ file_idx = 2
    /\ run_status[2] = "DONE"
    /\ NumCalls(2, "separate_voices") = 2
    /\ \E q \in fs : q.dir = phase02_dir /\ <<q, 1>> \in origin /\ <<q, 2>> \notin origin
    /\ \E q \in fs : q.dir = phase02_dir /\ <<q, 2>> \in origin
    /\ phase04_dir(variant) \in dirs

====
